---- MODULE Spec2Model ----
(***************************************************************************)
(* A model of the configmate analyzer.                                     *)
(*                                                                         *)
(*   - the CMSL specification parser (specParserImpl), in its two source   *)
(*     variants: src/unnamed/part_000 and src/analyzer/spec/spec_parser.go *)
(*   - the custom object factory of the type system (tcustom_object.go)    *)
(*                                                                         *)
(* Go strings are sequences of one-character strings, so that prefixes,    *)
(* slices and concatenations are computed as the code computes them.       *)
(***************************************************************************)
EXTENDS Integers, Sequences, FiniteSets, TLC

(***************************************************************************)
(* Bounds of the explored sessions.                                        *)
(***************************************************************************)
\* size of the session of one SpecParser: its Parse calls and the grammar
\* elements (specification items, metadata items, check statements, import
\* items) they walk
MaxSize == 5
\* nesting depth of specification items
MaxDepth == 2
\* syntax errors one lexing/parsing run reports
MaxSyntaxErrors == 1

(***************************************************************************)
(* Strings.                                                                *)
(***************************************************************************)
HasPrefix(s, prefix) ==
    /\ Len(s) >= Len(prefix)
    /\ SubSeq(s, 1, Len(prefix)) = prefix

HasSuffix(s, suffix) ==
    /\ Len(s) >= Len(suffix)
    /\ SubSeq(s, Len(s) - Len(suffix) + 1, Len(s)) = suffix

\* Go's s[lo:hi] (0-based, hi exclusive)
Slice(s, lo, hi) == SubSeq(s, lo + 1, hi)

\* the characters the regular expression \s matches
IsSpace(c) == c \in {" ", "\t", "\n", "\r", "\f"}

\* the characters unicode.IsSpace accepts, within the model's alphabet
WhiteSpace == {" ", "\t", "\n", "\r", "\f"}

Quote == "\""
TripleQuote == <<Quote, Quote, Quote>>
Dot == <<".">>
ListOpen == <<"l", "i", "s", "t", "<">>
ListClose == <<">">>
ListColon == <<"l", "i", "s", "t", ":">>

\* regexp.MustCompile(`\s+`).ReplaceAllString(str, " ")
RECURSIVE CollapseSpaces(_)
CollapseSpaces(s) ==
    IF s = <<>> THEN <<>>
    ELSE IF IsSpace(Head(s))
         THEN IF Len(s) > 1 /\ IsSpace(s[2])
              THEN CollapseSpaces(Tail(s))
              ELSE <<" ">> \o CollapseSpaces(Tail(s))
         ELSE <<Head(s)>> \o CollapseSpaces(Tail(s))

RECURSIVE TrimLeft(_)
TrimLeft(s) ==
    IF s # <<>> /\ Head(s) \in WhiteSpace THEN TrimLeft(Tail(s)) ELSE s

RECURSIVE TrimRight(_)
TrimRight(s) ==
    IF s # <<>> /\ s[Len(s)] \in WhiteSpace
    THEN TrimRight(SubSeq(s, 1, Len(s) - 1))
    ELSE s

\* strings.TrimSpace
TrimSpace(s) == TrimRight(TrimLeft(s))

\* part_000: removeStrQuotesAndCleanSpaces
removeStrQuotesAndCleanSpaces(str) ==
    LET unquoted ==
            IF HasPrefix(str, TripleQuote) THEN Slice(str, 3, Len(str) - 3)
            ELSE IF HasPrefix(str, <<Quote>>) THEN Slice(str, 1, Len(str) - 1)
            ELSE str
    IN  TrimSpace(CollapseSpaces(unquoted))

\* spec_parser.go: removeStrQuotesAndCleanSpaces
removeStrQuotesAndCleanSpacesOld(str) ==
    IF HasPrefix(str, TripleQuote)
    THEN CollapseSpaces(Slice(str, 3, Len(str) - 3))
    ELSE Slice(str, 1, Len(str) - 1)

\* the loop strips the opening of a wrapper and keeps its closing
RECURSIVE condenseLoopKeepsClosing(_, _)
condenseLoopKeepsClosing(result, typeStr) ==
    IF HasPrefix(typeStr, ListOpen) /\ HasSuffix(typeStr, ListClose)
    THEN condenseLoopKeepsClosing(result \o ListColon, Slice(typeStr, 5, Len(typeStr)))
    ELSE result \o typeStr

\* part_000: condenseListExpressions, the loop with its two locals
RECURSIVE condenseLoop(_, _)
condenseLoop(result, typeStr) ==
    IF HasPrefix(typeStr, ListOpen) /\ HasSuffix(typeStr, ListClose)
    THEN condenseLoop(result \o ListColon, Slice(typeStr, 5, Len(typeStr) - 1))
    ELSE result \o typeStr

condenseListExpressions(typeStr) == condenseLoop(<<>>, typeStr)

\* strconv.ParseBool
ParseBool(str) ==
    IF str \in {<<"1">>, <<"t">>, <<"T">>, <<"t", "r", "u", "e">>,
                <<"T", "R", "U", "E">>, <<"T", "r", "u", "e">>}
    THEN [ok |-> TRUE, value |-> TRUE]
    ELSE IF str \in {<<"0">>, <<"f">>, <<"F">>, <<"f", "a", "l", "s", "e">>,
                     <<"F", "A", "L", "S", "E">>, <<"F", "a", "l", "s", "e">>}
    THEN [ok |-> TRUE, value |-> FALSE]
    ELSE [ok |-> FALSE, value |-> FALSE]


(***************************************************************************)
(* The input of the specification parser: what the ANTLR lexer and parser  *)
(* make of the source text.  A token's text is a string; of the source     *)
(* spans the model keeps the line of a metadata item, which is its index   *)
(* in the metadata expression of its field (one item per line).            *)
(***************************************************************************)
\* ctx.FieldName().GetText()
FieldNames == {<<"a">>, <<"b">>}

\* item.TypeExpr().GetText()
TypeExprs == {<<"i", "n", "t">>, ListOpen \o <<"i", "n", "t">> \o ListClose}

\* item.BOOL().GetText()
BoolTexts == {<<"t", "r", "u", "e">>, <<"f", "a", "l", "s", "e">>}

\* item.Primitive().GetText()
Primitives == {<<"5">>, <<Quote, "x", Quote>>}

\* item.StringExpr().GetText()
StringExprs == {<<Quote, "n", Quote>>, TripleQuote \o <<" ", " ", "m">> \o TripleQuote}

\* the alternatives of the metadataItem rule
MetadataKinds == {"type", "optional", "default", "notes"}

MetadataItems ==
    [kind : {"type"}, text : TypeExprs] \cup
    [kind : {"optional"}, text : BoolTexts] \cup
    [kind : {"default"}, text : Primitives] \cup
    [kind : {"notes"}, text : StringExprs]

\* check.GetText()
CheckTexts == {<<"c">>}

\* ctx.SHORT_STRING().GetText() of a file declaration or an import item
ShortStrings == {<<Quote, "f", Quote>>}

\* ctx.IDENTIFIER().GetText() of a file declaration
FileFormats == {<<"t", "o", "m", "l">>}

\* ctx.IDENTIFIER().GetText() of an import item
ImportAliases == {<<"i">>}

SeqsUpTo(S, n) == UNION {[1..k -> S] : k \in 0..n}

\* the two builds of the package: src/unnamed/part_000 and
\* src/analyzer/spec/spec_parser.go
Variants == {"part_000", "spec_parser"}

(***************************************************************************)
(* State of one SpecParser and of the tree walk of its current Parse call. *)
(***************************************************************************)
VARIABLES
    variant,          \* which build of the package runs
    spec,             \* specParserImpl.spec
    itemFieldStack,   \* specParserImpl.itemFieldStack, top last
    errs,             \* specParserImpl.errs, nil is <<>>
    listenerErrors,   \* len(errorListener.errors) of the last Parse call
    ret,              \* what the last Parse call returned
    pc,               \* position of the Parse call
    open,             \* the walker's open specificationItem contexts
    entered,          \* the specificationItem contexts this walk entered
    returned,         \* <<*spec>> as it was when it was last returned, or <<>>
    nParses,          \* Parse calls so far
    nSize             \* size of the session so far

specVars == <<variant, spec, itemFieldStack, errs, listenerErrors, ret, pc,
              open, entered, returned, nParses, nSize>>

(***************************************************************************)
(* State of one call of the custom object factory.                         *)
(***************************************************************************)
VARIABLES
    objValue,     \* customObjectFactory: the source map
    definition,   \* customObjectFactory: the object definition
    object,       \* <<the object the call returned>>, nil is <<>>
    objectErr,    \* <<the error the call returned>>, nil is <<>>
    made,         \* whether customObjectFactory has returned
    method,       \* GetMethod: the requested method name
    args,         \* the argument list the returned Method was called with
    callValue,    \* <<the IType the Method returned>>, nil is <<>>
    callErr,      \* <<the error the Method returned>>, nil is <<>>
    called        \* whether the Method has returned

objVars == <<objValue, definition, object, objectErr, made,
             method, args, callValue, callErr, called>>

(***************************************************************************)
(* State of the calls of the two pure helpers, condenseListExpressions and *)
(* equalType.                                                              *)
(***************************************************************************)
VARIABLES
    typeStr,      \* condenseListExpressions: the descriptor given first
    condensed,    \* the results of the successive condenseListExpressions calls
    nodeType,     \* equalType: the tag of the node
    argType,      \* equalType: the check argument type
    equal         \* <<the result of equalType>>, <<>> before the call

utilVars == <<typeStr, condensed, nodeType, argType, equal>>

(***************************************************************************)
(* State of one tomlParser. Nodes are shared by pointer between the tree   *)
(* and the stack, so the model keeps them in a heap: a *Node is an index   *)
(* into nodes.                                                             *)
(***************************************************************************)
VARIABLES
    nodes,            \* the heap of the Nodes allocated by the current Parse
    configFile,       \* p.configFile, 0 is nil
    stack,            \* p.stack, the top is the last element
    directlyDefined,  \* p.directlyDefined, the keys mapped to true
    tomlErrs,         \* p.errs
    tomlRet,          \* what the last Parse returned
    tomlPc,           \* "idle", "walk", "returned", "refused" or a panic
    tomlOpen,         \* the contexts the walker has entered and not exited
    tomlLine,         \* the line of the expression the walker is in
    nCallbacks,       \* Enter callbacks of this session
    tableNodes,       \* the nodes a table header of this walk has pushed
    rejectedKeys,     \* the keys of the key_values this walk has rejected
    lastLookup        \* <<the last getOrCreateNode call>>, <<>> before it

tomlVars == <<nodes, configFile, stack, directlyDefined, tomlErrs, tomlRet, tomlPc,
              tomlOpen, tomlLine, nCallbacks, tableNodes, rejectedKeys, lastLookup>>

vars == <<specVars, objVars, utilVars, tomlVars>>

\* what the specification parser leaves alone
notSpecVars == <<objVars, utilVars, tomlVars>>

\* what the type system leaves alone
notObjVars == <<specVars, utilVars, tomlVars>>

\* what the pure helpers leave alone
notUtilVars == <<specVars, objVars, tomlVars>>

\* what the TOML parser leaves alone
notTomlVars == <<specVars, objVars, utilVars>>

\* Specification{} with the given maps and slices
Specification(imports, fields) ==
    [File |-> <<>>, FileFormat |-> <<>>, Imports |-> imports, Fields |-> fields]

\* FieldSpec{Field: fieldName}: the other fields have their zero values
FieldSpec(fieldName) ==
    [Field |-> fieldName,
     FieldType |-> <<>>, FieldTypeLocation |-> 0,
     Optional |-> FALSE, OptionalLocation |-> 0,
     Default |-> <<>>, DefaultLocation |-> 0,
     Notes |-> <<>>, NotesLocation |-> 0,
     Checks |-> <<>>]

\* golang-collections stack.Stack
Push(stk, value) == Append(stk, value)
Pop(stk) == IF stk = <<>> THEN stk ELSE SubSeq(stk, 1, Len(stk) - 1)
Peek(stk) == stk[Len(stk)]

\* NewSpecParser: &specParserImpl{}
NewSpecParser ==
    /\ spec = Specification(<<>>, <<>>)
    /\ itemFieldStack = <<>>
    /\ errs = <<>>

\* no Parse call yet
SpecIdle ==
    /\ listenerErrors = 0
    /\ ret = [spec |-> "nil", err |-> <<>>]
    /\ pc = "idle"
    /\ open = <<>>
    /\ entered = <<>>
    /\ returned = <<>>
    /\ nParses = 0
    /\ nSize = 0


(***************************************************************************)
(* The listener callbacks of the specification parser.                     *)
(***************************************************************************)
\* fmt.Errorf("duplicate %s metadata for field %s", kind, fieldName)
DuplicateError(kind, fieldName) ==
    [msg |-> "duplicate metadata", kind |-> kind, field |-> fieldName]

\* fmt.Errorf("missing type metadata for field %s", fieldName)
MissingTypeError(fieldName) ==
    [msg |-> "missing metadata", kind |-> "type", field |-> fieldName]

\* fmt.Errorf("syntax errors: %v", multierr.Combine(errorListener.errors...))
SyntaxErrors(n) == <<[msg |-> "syntax errors", count |-> n]>>

\* part_000: the fieldName of EnterSpecificationItem
fieldName(stk, text) ==
    IF Len(stk) # 0 THEN Peek(stk) \o Dot \o text ELSE text

\* spec_parser.go: the field of EnterSpecificationItem
field(stk, text) == Peek(stk) \o Dot \o text

\* the locals of EnterSpecificationItem before its metadata loop
Locals(name) ==
    [fieldSpecification |-> FieldSpec(name),
     errs |-> errs,
     foundType |-> FALSE, foundDefault |-> FALSE,
     foundOptional |-> FALSE, foundNotes |-> FALSE,
     panicked |-> FALSE]

\* case *parser_cmsl.TypeMetadataContext
TypeMetadata(l, item, line) ==
    IF l.foundType
    THEN [l EXCEPT !.errs = Append(@, DuplicateError("type", l.fieldSpecification.Field))]
    ELSE [l EXCEPT !.foundType = TRUE,
                   !.fieldSpecification.FieldType =
                       IF variant = "part_000"
                       THEN condenseListExpressions(item.text)
                       ELSE item.text,
                   !.fieldSpecification.FieldTypeLocation = line]

\* case *parser_cmsl.OptionalMetadataContext
OptionalMetadata(l, item, line) ==
    IF l.foundOptional
    THEN [l EXCEPT !.errs = Append(@, DuplicateError("optional", l.fieldSpecification.Field))]
    ELSE IF ~ParseBool(item.text).ok
    THEN [l EXCEPT !.foundOptional = TRUE, !.panicked = TRUE]
    ELSE [l EXCEPT !.foundOptional = TRUE,
                   !.fieldSpecification.Optional = ParseBool(item.text).value,
                   !.fieldSpecification.OptionalLocation = line]

\* case *parser_cmsl.DefaultMetadataContext
DefaultMetadata(l, item, line) ==
    IF l.foundDefault
    THEN [l EXCEPT !.errs = Append(@, DuplicateError("default", l.fieldSpecification.Field))]
    ELSE [l EXCEPT !.foundDefault = TRUE,
                   !.fieldSpecification.Default =
                       IF variant = "part_000"
                       THEN removeStrQuotesAndCleanSpaces(item.text)
                       ELSE item.text,
                   !.fieldSpecification.DefaultLocation = line]

\* case *parser_cmsl.NotesMetadataContext
NotesMetadata(l, item, line) ==
    IF l.foundNotes
    THEN [l EXCEPT !.errs = Append(@, DuplicateError("notes", l.fieldSpecification.Field))]
    ELSE [l EXCEPT !.fieldSpecification.Notes =
                       IF variant = "part_000"
                       THEN removeStrQuotesAndCleanSpaces(item.text)
                       ELSE removeStrQuotesAndCleanSpacesOld(item.text),
                   !.fieldSpecification.NotesLocation = line]

\* the switch of the metadata loop
MetadataItem(l, item, line) ==
    CASE item.kind = "type" -> TypeMetadata(l, item, line)
      [] item.kind = "optional" -> OptionalMetadata(l, item, line)
      [] item.kind = "default" -> DefaultMetadata(l, item, line)
      [] item.kind = "notes" -> NotesMetadata(l, item, line)
      [] OTHER -> [l EXCEPT !.panicked = TRUE]

\* the loop stops at the first duplicate: break instead of continue
RECURSIVE MetadataLoopBreak(_, _, _)
MetadataLoopBreak(l, items, line) ==
    IF line > Len(items) \/ l.panicked THEN l
    ELSE LET next == MetadataItem(l, items[line], line)
         IN  IF Len(next.errs) > Len(l.errs) THEN next
             ELSE MetadataLoopBreak(next, items, line + 1)

\* for _, metadataItem := range ctx.MetadataExpression().AllMetadataItem(),
\* from the item at index line on
RECURSIVE MetadataLoop(_, _, _)
MetadataLoop(l, items, line) ==
    IF line > Len(items) \/ l.panicked THEN l
    ELSE MetadataLoop(MetadataItem(l, items[line], line), items, line + 1)

\* a missing type goes unreported
MissingTypeUnreported(l) == l

\* if !foundType
MissingType(l) ==
    IF ~l.foundType
    THEN [l EXCEPT !.errs = Append(@, MissingTypeError(l.fieldSpecification.Field))]
    ELSE l

\* for _, check := range ctx.AllCheck()
CheckLoop(l, checks) ==
    [l EXCEPT !.fieldSpecification.Checks =
        @ \o [i \in 1..Len(checks) |-> [Check |-> checks[i], Location |-> i]]]

\* the body of EnterSpecificationItem after the push
ItemBody(name, ctx) ==
    LET afterMetadata == MetadataLoop(Locals(name), ctx.meta, 1)
    IN  IF afterMetadata.panicked THEN afterMetadata
        ELSE CheckLoop(MissingType(afterMetadata), ctx.checks)

\* the grammar elements of a specificationItem context
Size(ctx) == 1 + Len(ctx.meta) + Len(ctx.checks)

\* the specificationItem contexts the walker can still deliver
ItemContexts ==
    {ctx \in [name : FieldNames,
              meta : SeqsUpTo(MetadataItems, MaxSize - nSize - 1),
              checks : SeqsUpTo(CheckTexts, MaxSize - nSize - 1)] :
        nSize + Size(ctx) <= MaxSize}

\* the parser state is zeroed before the syntax errors are looked at
ParseZeroesFirst(n) ==
    /\ pc = "idle"
    /\ nSize < MaxSize
    /\ nParses' = nParses + 1
    /\ nSize' = nSize + 1
    /\ listenerErrors' = n
    /\ spec' = Specification(<<>>, <<>>)
    /\ errs' = <<>>
    /\ itemFieldStack' = IF variant = "part_000" THEN <<>> ELSE Push(<<>>, <<>>)
    /\ IF n > 0
       THEN /\ ret' = [spec |-> "nil", err |-> SyntaxErrors(n)]
            /\ UNCHANGED <<pc, entered>>
       ELSE /\ pc' = "fileDeclaration"
            /\ entered' = <<>>
            /\ UNCHANGED ret
    /\ UNCHANGED <<variant, open, returned>>
    /\ UNCHANGED notSpecVars

\* Parse up to the walk.  n is len(errorListener.errors) when Parse looks at
\* it: what the lexer and the parser reported to the listener (in
\* spec_parser.go the listener is attached after the lexer was read to its
\* end, lines 47-58, so n counts what the parser reported).  The parse tree
\* is not chosen here: the walker's callbacks draw its contexts one by one.
Parse(n) ==
    /\ pc = "idle"
    /\ nSize < MaxSize
    /\ nParses' = nParses + 1
    /\ nSize' = nSize + 1
    /\ listenerErrors' = n
    /\ IF n > 0
       THEN /\ ret' = [spec |-> "nil", err |-> SyntaxErrors(n)]
            /\ UNCHANGED <<spec, errs, itemFieldStack, pc, entered>>
       ELSE /\ spec' = Specification(<<>>, <<>>)
            /\ errs' = <<>>
            /\ itemFieldStack' =
                   IF variant = "part_000" THEN <<>> ELSE Push(<<>>, <<>>)
            /\ pc' = "fileDeclaration"
            /\ entered' = <<>>
            /\ UNCHANGED ret
    /\ UNCHANGED <<variant, open, returned>>
    /\ UNCHANGED notSpecVars

EnterFileDeclaration(shortString, identifier) ==
    /\ pc = "fileDeclaration"
    /\ spec' = [spec EXCEPT
           !.File = IF variant = "part_000"
                    THEN removeStrQuotesAndCleanSpaces(shortString)
                    ELSE removeStrQuotesAndCleanSpacesOld(shortString),
           !.FileFormat = identifier]
    /\ pc' = "imports"
    /\ UNCHANGED <<variant, itemFieldStack, errs, listenerErrors, ret, open,
                   entered, returned, nParses, nSize>>
    /\ UNCHANGED notSpecVars

EnterImportItem(identifier, shortString) ==
    /\ pc = "imports"
    /\ nSize < MaxSize
    /\ nSize' = nSize + 1
    /\ spec' = [spec EXCEPT
           !.Imports = (identifier :>
                           IF variant = "part_000"
                           THEN removeStrQuotesAndCleanSpaces(shortString)
                           ELSE removeStrQuotesAndCleanSpacesOld(shortString)) @@ @]
    /\ UNCHANGED <<variant, itemFieldStack, errs, listenerErrors, ret, pc, open,
                   entered, returned, nParses>>
    /\ UNCHANGED notSpecVars

EnterSpecificationItem(ctx) ==
    /\ pc \in {"imports", "items"}
    /\ nSize < MaxSize
    /\ Len(open) < MaxDepth
    /\ nSize' = nSize + Size(ctx)
    /\ IF variant = "spec_parser" /\ Len(itemFieldStack) = 0
       THEN \* Peek() of an empty stack is nil, and nil.(string) panics
            /\ pc' = "panic"
            /\ UNCHANGED <<spec, itemFieldStack, errs, open, entered>>
       ELSE LET name == IF variant = "part_000"
                        THEN fieldName(itemFieldStack, ctx.name)
                        ELSE field(itemFieldStack, ctx.name)
                l == ItemBody(name, ctx)
            IN  /\ itemFieldStack' = Push(itemFieldStack, name)
                /\ errs' = l.errs
                /\ entered' = Append(entered,
                       [ctx |-> ctx,
                        parent |-> IF open = <<>> THEN 0 ELSE open[Len(open)],
                        errsBefore |-> Len(errs),
                        errsAfter |-> Len(l.errs)])
                /\ open' = Append(open, Len(entered) + 1)
                /\ IF l.panicked
                   THEN pc' = "panic" /\ UNCHANGED spec
                   ELSE /\ pc' = "items"
                        /\ spec' = [spec EXCEPT
                               !.Fields = Append(@, l.fieldSpecification)]
    /\ UNCHANGED <<variant, listenerErrors, ret, returned, nParses>>
    /\ UNCHANGED notSpecVars

\* the exit callback leaves the stack alone
ExitSpecificationItemNoPop ==
    /\ pc = "items"
    /\ open # <<>>
    /\ open' = SubSeq(open, 1, Len(open) - 1)
    /\ UNCHANGED <<variant, spec, itemFieldStack, errs, listenerErrors, ret, pc,
                   entered, returned, nParses, nSize>>
    /\ UNCHANGED notSpecVars

ExitSpecificationItem ==
    /\ pc = "items"
    /\ open # <<>>
    /\ itemFieldStack' = Pop(itemFieldStack)
    /\ open' = SubSeq(open, 1, Len(open) - 1)
    /\ UNCHANGED <<variant, spec, errs, listenerErrors, ret, pc, entered,
                   returned, nParses, nSize>>
    /\ UNCHANGED notSpecVars

\* Parse after the walk: return &p.spec, nil
ParseReturn ==
    /\ pc \in {"imports", "items"}
    /\ open = <<>>
    /\ ret' = [spec |-> "p.spec", err |-> <<>>]
    /\ returned' = <<spec>>
    /\ pc' = "idle"
    /\ UNCHANGED <<variant, spec, itemFieldStack, errs, listenerErrors, open,
                   entered, nParses, nSize>>
    /\ UNCHANGED notSpecVars

SpecNext ==
    \/ \E n \in 0..MaxSyntaxErrors : Parse(n)
    \/ \E shortString \in ShortStrings, identifier \in FileFormats :
           EnterFileDeclaration(shortString, identifier)
    \/ \E identifier \in ImportAliases, shortString \in ShortStrings :
           EnterImportItem(identifier, shortString)
    \/ \E ctx \in ItemContexts : EnterSpecificationItem(ctx)
    \/ ExitSpecificationItem
    \/ ParseReturn

(***************************************************************************)
(* The custom object type of the type system (tcustom_object.go).          *)
(***************************************************************************)
\* declared properties of one object definition
MaxProperties == 2

\* spec.ObjectDef.Name
ObjectNames == {"Person"}

\* the Name of a declared property
PropertyNames == {"name", "age"}

\* the keys of a source map
SourceKeys == PropertyNames \cup {"extra"}

\* the Type of a declared property
PropertyTypes == {"string", "int"}

\* Node.Value of a scalar node: a Go value with its dynamic type
GoValues == {[goType |-> "string", v |-> "a"], [goType |-> "int", v |-> 1]}

\* the properties of a spec.ObjectDef
Properties == [Name : PropertyNames, Type : PropertyTypes, Optional : BOOLEAN]

\* spec.ObjectDef
ObjectDefs == [Name : ObjectNames, Properties : SeqsUpTo(Properties, MaxProperties)]

\* map[string]*parsers.Node, a node being given by its Value
SourceMaps == UNION {[keys -> [Value : GoValues]] : keys \in SUBSET SourceKeys}

\* MakeType(typeName, value): a primitive descriptor wraps a value of its own
\* type and rejects any other
MakeType(typeName, value) ==
    IF value.goType = typeName
    THEN [t |-> [typeName |-> typeName, value |-> value.v], err |-> <<>>]
    ELSE [t |-> [typeName |-> "nil"],
          err |-> <<[msg |-> "type mismatch", expected |-> typeName, got |-> value.goType]>>]

\* a required property that is absent is skipped like an optional one
RECURSIVE propertiesLoopAllOptional(_, _, _, _)
propertiesLoopAllOptional(value, def, k, fields) ==
    IF k > Len(def.Properties)
    THEN [object |-> <<[ObjectName |-> def.Name, Fields |-> fields]>>, err |-> <<>>]
    ELSE LET prop == def.Properties[k]
         IN  IF prop.Name \in DOMAIN value
             THEN LET made_ == MakeType(prop.Type, value[prop.Name].Value)
                  IN  IF made_.err # <<>>
                      THEN [object |-> <<>>, err |-> made_.err]
                      ELSE propertiesLoopAllOptional(value, def, k + 1,
                               (prop.Name :> made_.t) @@ fields)
             ELSE propertiesLoopAllOptional(value, def, k + 1, fields)

\* an optional property that is absent is stored as a nil field
RECURSIVE propertiesLoopStoresAbsent(_, _, _, _)
propertiesLoopStoresAbsent(value, def, k, fields) ==
    IF k > Len(def.Properties)
    THEN [object |-> <<[ObjectName |-> def.Name, Fields |-> fields]>>, err |-> <<>>]
    ELSE LET prop == def.Properties[k]
         IN  IF prop.Name \in DOMAIN value
             THEN LET made_ == MakeType(prop.Type, value[prop.Name].Value)
                  IN  IF made_.err # <<>>
                      THEN [object |-> <<>>, err |-> made_.err]
                      ELSE propertiesLoopStoresAbsent(value, def, k + 1,
                               (prop.Name :> made_.t) @@ fields)
             ELSE IF ~prop.Optional
             THEN [object |-> <<>>,
                   err |-> <<[msg |-> "missing required property", prop |-> prop.Name]>>]
             ELSE propertiesLoopStoresAbsent(value, def, k + 1,
                      (prop.Name :> [typeName |-> "nil"]) @@ fields)

\* for _, prop := range definition.Properties, from the property at index k
\* on, with object.Fields as built so far; then return object, nil
RECURSIVE propertiesLoop(_, _, _, _)
propertiesLoop(value, def, k, fields) ==
    IF k > Len(def.Properties)
    THEN [object |-> <<[ObjectName |-> def.Name, Fields |-> fields]>>, err |-> <<>>]
    ELSE LET prop == def.Properties[k]
         IN  IF prop.Name \in DOMAIN value
             THEN LET t == MakeType(prop.Type, value[prop.Name].Value)
                  IN  IF t.err # <<>>
                      THEN [object |-> <<>>, err |-> t.err]
                      ELSE propertiesLoop(value, def, k + 1,
                               (prop.Name :> t.t) @@ fields)
             ELSE IF ~prop.Optional
             THEN [object |-> <<>>,
                   err |-> <<[msg |-> "missing required property", prop |-> prop.Name]>>]
             ELSE propertiesLoop(value, def, k + 1, fields)

\* a call of customObjectFactory(objValue, definition)
customObjectFactory ==
    /\ ~made
    /\ LET r == propertiesLoop(objValue, definition, 1, <<>>)
       IN  /\ object' = r.object
           /\ objectErr' = r.err
    /\ made' = TRUE
    /\ UNCHANGED <<objValue, definition, method, args, callValue, callErr, called>>
    /\ UNCHANGED notObjVars

\* arguments of one Method call
MaxArgs == 2

\* method names a caller asks a custom object for
MethodNames == {"get", "set"}

\* the IType values passed as arguments: two strings and an int
ArgValues ==
    <<[typeName |-> "string", value |-> "name"],
      [typeName |-> "string", value |-> "extra"],
      [typeName |-> "int", value |-> 1]>>

\* the argument list made of the values at the indexes ix
ArgList(ix) == [i \in 1..Len(ix) |-> ArgValues[ix[i]]]

\* the method table of tCustomObject
tCustomObjectMethods == {"get"}

\* get returns the zero IType with no error when the field does not exist
getNoFieldCheck(t, arguments) ==
    IF Len(arguments) # 1
    THEN [value |-> <<>>, err |-> <<[msg |-> "expects 1 argument", type |-> t.ObjectName]>>]
    ELSE IF arguments[1].typeName # "string"
    THEN [value |-> <<>>, err |-> <<[msg |-> "argument must be a string", type |-> t.ObjectName]>>]
    ELSE IF arguments[1].value \notin DOMAIN t.Fields
    THEN [value |-> <<>>, err |-> <<>>]
    ELSE [value |-> <<t.Fields[arguments[1].value]>>, err |-> <<>>]

\* tCustomObjectMethods["get"]: func(args []IType) (IType, error)
get(t, arguments) ==
    IF Len(arguments) # 1
    THEN [value |-> <<>>, err |-> <<[msg |-> "expects 1 argument", type |-> t.ObjectName]>>]
    ELSE IF arguments[1].typeName # "string"
    THEN [value |-> <<>>, err |-> <<[msg |-> "argument must be a string", type |-> t.ObjectName]>>]
    ELSE IF arguments[1].value \notin DOMAIN t.Fields
    THEN [value |-> <<>>,
          err |-> <<[msg |-> "does not have field", type |-> t.ObjectName,
                     field |-> arguments[1].value]>>]
    ELSE [value |-> <<t.Fields[arguments[1].value]>>, err |-> <<>>]

\* the Method returned for a name that is in the table after all
missingMethodFallsBackToGet(t, name, arguments) == get(t, arguments)

\* the Method GetMethod returns for a name that is not in the table
missingMethod(t, name, arguments) ==
    [value |-> <<>>,
     err |-> <<[msg |-> "does not have method", type |-> t.ObjectName, method |-> name]>>]

\* t.GetMethod(name)(arguments...)
GetMethod(t, name, arguments) ==
    IF name \in tCustomObjectMethods
    THEN get(t, arguments)
    ELSE missingMethod(t, name, arguments)

\* t.TypeName()
TypeName(t) == t.ObjectName

\* a caller asks the object the factory returned for a method and calls it
CallMethod(name, arguments) ==
    /\ made
    /\ object # <<>>
    /\ ~called
    /\ LET r == GetMethod(object[1], name, arguments)
       IN  /\ callValue' = r.value
           /\ callErr' = r.err
    /\ method' = name
    /\ args' = arguments
    /\ called' = TRUE
    /\ UNCHANGED <<objValue, definition, object, objectErr, made>>
    /\ UNCHANGED notObjVars

\* no Method has been called
NoCall ==
    /\ method = ""
    /\ args = <<>>
    /\ callValue = <<>>
    /\ callErr = <<>>
    /\ called = FALSE

\* no call of the type system
ObjIdle ==
    /\ objValue = <<>>
    /\ definition = [Name |-> "", Properties |-> <<>>]
    /\ object = <<>>
    /\ objectErr = <<>>
    /\ made = FALSE
    /\ NoCall

TypesNext ==
    \/ customObjectFactory
    \/ \E m \in MethodNames, ix \in SeqsUpTo(1..Len(ArgValues), MaxArgs) :
           CallMethod(m, ArgList(ix))

(***************************************************************************)
(* The pure helpers: condenseListExpressions (part_000) and equalType      *)
(* (utils.go).                                                             *)
(***************************************************************************)
\* list<...> wrappers around the base type name of a descriptor
MaxNest == 3

\* parsers.FieldType, the iota constants of configfile.go
Null == 0

Bool == 1

Int_ == 2

Float == 3

String == 4

Array == 5

Object == 6

FieldTypes == {Null, Bool, Int_, Float, String, Array, Object}

\* CheckArgType: the four cases of the switch, and any other value
CheckArgTypes == {"Int", "Float", "Bool", "String", "Other"}

\* the base type names of a descriptor
BaseNames == {<<"i", "n", "t">>, <<"l", "i", "s", "t">>, <<"P">>, <<"f", "l", "o", "a", "t">>}

\* the base type name wrapped n times in list<...>
RECURSIVE Wrapped(_, _)
Wrapped(base, n) ==
    IF n = 0 THEN base ELSE ListOpen \o Wrapped(base, n - 1) \o ListClose

\* the descriptors given to condenseListExpressions
Descriptors == {Wrapped(base, n) : base \in BaseNames, n \in 0..MaxNest}

\* int matches a float argument as well
equalTypeWidening(nodeTag, checkArgType) ==
    CASE checkArgType = "Int" -> nodeTag = Int_
      [] checkArgType = "Float" -> nodeTag \in {Float, Int_}
      [] checkArgType = "Bool" -> nodeTag = Bool
      [] checkArgType = "String" -> nodeTag = String
      [] OTHER -> FALSE

\* equalType(nodeType, argType)
equalType(nodeTag, checkArgType) ==
    CASE checkArgType = "Int" -> nodeTag = Int_
      [] checkArgType = "Float" -> nodeTag = Float
      [] checkArgType = "Bool" -> nodeTag = Bool
      [] checkArgType = "String" -> nodeTag = String
      [] OTHER -> FALSE

\* a call of condenseListExpressions, on the descriptor first and then on
\* its own result
CondenseListExpressions ==
    /\ Len(condensed) < 2
    /\ condensed' = Append(condensed,
           condenseListExpressions(IF condensed = <<>> THEN typeStr
                                   ELSE condensed[Len(condensed)]))
    /\ UNCHANGED <<typeStr, nodeType, argType, equal>>
    /\ UNCHANGED notUtilVars

\* a call of equalType(nodeType, argType)
EqualType ==
    /\ equal = <<>>
    /\ equal' = <<equalType(nodeType, argType)>>
    /\ UNCHANGED <<typeStr, condensed, nodeType, argType>>
    /\ UNCHANGED notUtilVars

\* no call of the pure helpers
UtilIdle ==
    /\ typeStr = <<>>
    /\ condensed = <<>>
    /\ nodeType = Null
    /\ argType = "Other"
    /\ equal = <<>>

UtilNext ==
    \/ CondenseListExpressions
    \/ EqualType

(***************************************************************************)
(* The TOML parser (toml_parser.go). The parse tree is an input: the       *)
(* walker delivers the Enter and Exit callbacks of a document in document  *)
(* order. A tomlKey is the sequence of its segments. A location is the     *)
(* span of a token on the line of its expression. The model follows one    *)
(* Parse call: a later call starts again from a fresh tree, stack and      *)
(* directlyDefined map (lines 56-66). The callbacks hand the tomlKey they  *)
(* parsed to getOrCreateNode, which ranges over its segments, and to the   *)
(* directlyDefined map, which is keyed by the key.                         *)
(***************************************************************************)
\* Enter callbacks of one session
MaxCallbacks == 5

\* the keys of the documents: a, b and a.b
TomlKeys == {<<"a">>, <<"b">>, <<"a", "b">>}

\* the zero value of TokenLocation
NoLocation ==
    [Start |-> [Line |-> 0, Column |-> 0], End |-> [Line |-> 0, Column |-> 0]]

\* the span of a table header that is alone on line l
headerLocation(l) ==
    [Start |-> [Line |-> l, Column |-> 0], End |-> [Line |-> l, Column |-> 3]]

\* the span of a key on line l
keyLocation(l) ==
    [Start |-> [Line |-> l, Column |-> 0], End |-> [Line |-> l, Column |-> 1]]

\* the span of a value on line l
valueLocation(l) ==
    [Start |-> [Line |-> l, Column |-> 4], End |-> [Line |-> l, Column |-> 5]]

\* Node.Value, an interface{}: its dynamic type and, by that type, the
\* children of an object, the items of an array or the scalar, a number or a
\* boolean being given by its text
NilValue == [kind |-> "nil", map |-> <<>>, slice |-> <<>>, scalar |-> <<>>]

\* map[string]*Node{}
EmptyMap == [kind |-> "map", map |-> <<>>, slice |-> <<>>, scalar |-> <<>>]

\* []*Node{}
EmptySlice == [kind |-> "slice", map |-> <<>>, slice |-> <<>>, scalar |-> <<>>]

ScalarValue(goType, text) ==
    [kind |-> goType, map |-> <<>>, slice |-> <<>>, scalar |-> text]

\* &Node{Type: type, Value: value, ...}
Node(type, value, nameLocation, valLocation) ==
    [Type |-> type, Value |-> value,
     NameLocation |-> nameLocation, ValueLocation |-> valLocation]

\* CMParserError{Message, Location}
CMParserError(msg, key, location) ==
    [Message |-> [msg |-> msg, key |-> key], Location |-> location]

Apostrophe == "'"

TripleApostrophe == <<Apostrophe, Apostrophe, Apostrophe>>

\* cleanString
cleanString(stringValue) ==
    IF HasPrefix(stringValue, TripleQuote) /\ HasSuffix(stringValue, TripleQuote)
    THEN Slice(stringValue, 3, Len(stringValue) - 3)
    ELSE IF HasPrefix(stringValue, TripleApostrophe)
            /\ HasSuffix(stringValue, TripleApostrophe)
    THEN Slice(stringValue, 3, Len(stringValue) - 3)
    ELSE IF HasPrefix(stringValue, <<Quote>>) /\ HasSuffix(stringValue, <<Quote>>)
    THEN Slice(stringValue, 1, Len(stringValue) - 1)
    ELSE IF HasPrefix(stringValue, <<Apostrophe>>)
            /\ HasSuffix(stringValue, <<Apostrophe>>)
    THEN Slice(stringValue, 1, Len(stringValue) - 1)
    ELSE stringValue

\* the missing final segment is created as an empty Object node too
RECURSIVE getOrCreateLoopAllObjects(_, _, _, _)
getOrCreateLoopAllObjects(ns, currentNode, segments, index) ==
    IF index > Len(segments)
    THEN [nodes |-> ns, node |-> <<currentNode>>, err |-> <<>>]
    ELSE LET segment == segments[index]
             cur == ns[currentNode]
         IN  CASE cur.Type = Object ->
                    IF segment \in DOMAIN cur.Value.map
                    THEN getOrCreateLoopAllObjects(ns, cur.Value.map[segment],
                                                   segments, index + 1)
                    ELSE getOrCreateLoopAllObjects(
                             Append([ns EXCEPT ![currentNode].Value.map =
                                                   (segment :> (Len(ns) + 1)) @@ @],
                                    Node(Object, EmptyMap, NoLocation, NoLocation)),
                             Len(ns) + 1, segments, index + 1)
               [] cur.Type = Array ->
                    IF Len(cur.Value.slice) = 0
                    THEN [nodes |-> ns, node |-> <<>>,
                          err |-> <<"cannot traverse empty array">>]
                    ELSE getOrCreateLoopAllObjects(ns,
                             cur.Value.slice[Len(cur.Value.slice)], segments, index + 1)
               [] OTHER ->
                    [nodes |-> ns, node |-> <<>>,
                     err |-> <<"cannot traverse leaf node">>]

\* a leaf node in the path is turned into an object and traversed
RECURSIVE getOrCreateLoopThroughLeaf(_, _, _, _)
getOrCreateLoopThroughLeaf(ns, currentNode, segments, index) ==
    IF index > Len(segments)
    THEN [nodes |-> ns, node |-> <<currentNode>>, err |-> <<>>]
    ELSE LET segment == segments[index]
             cur == ns[currentNode]
         IN  CASE cur.Type = Object ->
                    IF segment \in DOMAIN cur.Value.map
                    THEN getOrCreateLoopThroughLeaf(ns, cur.Value.map[segment],
                                                    segments, index + 1)
                    ELSE getOrCreateLoopThroughLeaf(
                             Append([ns EXCEPT ![currentNode].Value.map =
                                                   (segment :> (Len(ns) + 1)) @@ @],
                                    IF index = Len(segments)
                                    THEN Node(Null, NilValue, NoLocation, NoLocation)
                                    ELSE Node(Object, EmptyMap, NoLocation, NoLocation)),
                             Len(ns) + 1, segments, index + 1)
               [] cur.Type = Array ->
                    IF Len(cur.Value.slice) = 0
                    THEN [nodes |-> ns, node |-> <<>>,
                          err |-> <<"cannot traverse empty array">>]
                    ELSE getOrCreateLoopThroughLeaf(ns,
                             cur.Value.slice[Len(cur.Value.slice)], segments, index + 1)
               [] OTHER ->
                    getOrCreateLoopThroughLeaf(
                        [ns EXCEPT ![currentNode].Type = Object,
                                   ![currentNode].Value = EmptyMap],
                        currentNode, segments, index)

\* getOrCreateNode, the loop from the segment at index on, over the heap ns
RECURSIVE getOrCreateLoop(_, _, _, _)
getOrCreateLoop(ns, currentNode, segments, index) ==
    IF index > Len(segments)
    THEN [nodes |-> ns, node |-> <<currentNode>>, err |-> <<>>]
    ELSE LET segment == segments[index]
             cur == ns[currentNode]
         IN  CASE cur.Type = Object ->
                    IF segment \in DOMAIN cur.Value.map
                    THEN getOrCreateLoop(ns, cur.Value.map[segment], segments, index + 1)
                    ELSE LET newNode ==
                                 IF index = Len(segments)
                                 THEN Node(Null, NilValue, NoLocation, NoLocation)
                                 ELSE Node(Object, EmptyMap, NoLocation, NoLocation)
                             new == Len(ns) + 1
                         IN  getOrCreateLoop(
                                 Append([ns EXCEPT ![currentNode].Value.map =
                                                       (segment :> new) @@ @],
                                        newNode),
                                 new, segments, index + 1)
               [] cur.Type = Array ->
                    IF Len(cur.Value.slice) = 0
                    THEN [nodes |-> ns, node |-> <<>>,
                          err |-> <<"cannot traverse empty array">>]
                    ELSE getOrCreateLoop(ns, cur.Value.slice[Len(cur.Value.slice)],
                                         segments, index + 1)
               [] OTHER ->
                    [nodes |-> ns, node |-> <<>>,
                     err |-> <<"cannot traverse leaf node">>]

\* p.getOrCreateNode(parentNode, segments) over the heap ns: the heap it
\* leaves, <<the node it returns>> and <<the error it returns>>
getOrCreateNode(ns, parentNode, segments) ==
    getOrCreateLoop(ns, parentNode, segments, 1)

\* the record of a getOrCreateNode call
Lookup(ns, parentNode, segments, r) ==
    <<[parent |-> parentNode, segments |-> segments, before |-> ns,
       after |-> r.nodes, node |-> r.node, err |-> r.err]>>

\* &tomlParser{}
NewTomlParser ==
    /\ nodes = <<>>
    /\ configFile = 0
    /\ stack = <<>>
    /\ directlyDefined = {}
    /\ tomlErrs = <<>>

\* no Parse has been called
TomlIdle ==
    /\ tomlRet = [node |-> 0, errs |-> <<>>]
    /\ tomlPc = "idle"
    /\ tomlOpen = <<>>
    /\ tomlLine = 0
    /\ nCallbacks = 0
    /\ tableNodes = {}
    /\ rejectedKeys = <<>>
    /\ lastLookup = <<>>

\* Parse of a document with syntax errors: they are returned with no tree
ParseRefused ==
    /\ tomlPc = "idle"
    /\ tomlRet' = [node |-> 0,
                   errs |-> <<CMParserError("syntax error", <<>>, NoLocation)>>]
    /\ tomlPc' = "refused"
    /\ UNCHANGED <<nodes, configFile, stack, directlyDefined, tomlErrs, tomlOpen,
                   tomlLine, nCallbacks, tableNodes, rejectedKeys, lastLookup>>
    /\ UNCHANGED notTomlVars

\* Parse of a document without syntax errors, up to the walk
ParseToml ==
    /\ tomlPc = "idle"
    /\ nodes' = <<Node(Object, EmptyMap, NoLocation, NoLocation)>>
    /\ configFile' = 1
    /\ stack' = Push(<<>>, 1)
    /\ directlyDefined' = {}
    /\ tomlPc' = "walk"
    /\ tomlOpen' = <<>>
    /\ tomlLine' = 0
    /\ tableNodes' = {}
    /\ rejectedKeys' = <<>>
    /\ lastLookup' = <<>>
    /\ UNCHANGED <<tomlErrs, tomlRet, nCallbacks>>
    /\ UNCHANGED notTomlVars

\* return p.configFile, nil
ParseTomlReturn ==
    /\ tomlPc = "walk"
    /\ tomlOpen = <<>>
    /\ tomlRet' = [node |-> configFile, errs |-> <<>>]
    /\ tomlPc' = "returned"
    /\ UNCHANGED <<nodes, configFile, stack, directlyDefined, tomlErrs, tomlOpen,
                   tomlLine, nCallbacks, tableNodes, rejectedKeys, lastLookup>>
    /\ UNCHANGED notTomlVars

\* the walker may deliver an Enter callback
MayEnter ==
    /\ tomlPc = "walk"
    /\ nCallbacks < MaxCallbacks

\* the walker is between two expressions of the document
AtTopLevel == tomlOpen = <<>>

\* the walker is where a key_value may start
AtKeyValue == IF AtTopLevel THEN TRUE ELSE Peek(tomlOpen).kind = "inline_table"

\* the walker is where a value may start
AtValue ==
    /\ tomlOpen # <<>>
    /\ \/ Peek(tomlOpen).kind = "key_value" /\ ~Peek(tomlOpen).valued
       \/ Peek(tomlOpen).kind = "array"

\* the line of the expression that starts or continues at the walker
ctxLine == IF AtTopLevel THEN tomlLine ELSE tomlLine - 1

\* the open contexts once the context of the given kind is entered, the
\* key_value it is the value of having its value
Opened(kind) ==
    LET marked == IF tomlOpen # <<>> /\ Peek(tomlOpen).kind = "key_value"
                  THEN [tomlOpen EXCEPT ![Len(tomlOpen)].valued = TRUE]
                  ELSE tomlOpen
    IN  IF kind = "scalar" THEN marked
        ELSE Append(marked, [kind |-> kind, valued |-> FALSE, rejected |-> FALSE,
                             before |-> stack])

\* a callback runs to its end and leaves the parser in the given state
Callback(ns, st, dd, es, op, tn, rj, lk) ==
    /\ nodes' = ns
    /\ stack' = st
    /\ directlyDefined' = dd
    /\ tomlErrs' = es
    /\ tomlOpen' = op
    /\ tomlLine' = IF AtTopLevel THEN tomlLine + 1 ELSE tomlLine
    /\ nCallbacks' = nCallbacks + 1
    /\ tableNodes' = tn
    /\ rejectedKeys' = rj
    /\ lastLookup' = lk
    /\ UNCHANGED <<configFile, tomlRet, tomlPc>>
    /\ UNCHANGED notTomlVars

\* p.stack.Peek().(*Node) on an empty stack: Peek returns nil
NilPeek == "panic: Peek is nil, not *Node"

\* fieldNode.Value.([]*Node) on a value that is no slice of nodes
NotASlice == "panic: Value is not []*Node"

\* a callback panics: a failed type assertion ends the walk and the Parse
Panic(why, ns, dd, lk) ==
    /\ nodes' = ns
    /\ directlyDefined' = dd
    /\ lastLookup' = lk
    /\ tomlPc' = why
    /\ nCallbacks' = nCallbacks + 1
    /\ UNCHANGED <<configFile, stack, tomlErrs, tomlRet, tomlOpen, tomlLine,
                   tableNodes, rejectedKeys>>
    /\ UNCHANGED notTomlVars

\* EnterKey_value, the key_value of the given key: rejected when the node
\* cannot be resolved or is populated already
EnterKey_value(fieldKey) ==
    /\ MayEnter
    /\ AtKeyValue
    /\ IF stack = <<>>
       THEN Panic(NilPeek, nodes, directlyDefined, lastLookup)
       ELSE LET parentNode == Peek(stack)
                r == getOrCreateNode(nodes, parentNode, fieldKey)
                lk == Lookup(nodes, parentNode, fieldKey, r)
                rejected == Append(tomlOpen,
                                [kind |-> "key_value", valued |-> FALSE,
                                 rejected |-> TRUE, before |-> stack])
                accepted == Append(tomlOpen,
                                [kind |-> "key_value", valued |-> FALSE,
                                 rejected |-> FALSE, before |-> stack])
            IN  IF r.err # <<>>
                THEN Callback(r.nodes, stack, directlyDefined,
                         Append(tomlErrs,
                                CMParserError(r.err[1], fieldKey, keyLocation(ctxLine))),
                         rejected, tableNodes,
                         Append(rejectedKeys, [key |-> fieldKey, msg |-> r.err[1]]), lk)
                ELSE IF r.nodes[r.node[1]].Type # Null
                THEN Callback(r.nodes, stack, directlyDefined,
                         Append(tomlErrs,
                                CMParserError("can't redefine existing key", fieldKey,
                                              keyLocation(ctxLine))),
                         rejected, tableNodes,
                         Append(rejectedKeys,
                                [key |-> fieldKey, msg |-> "can't redefine existing key"]),
                         lk)
                ELSE Callback(
                         [r.nodes EXCEPT ![r.node[1]].NameLocation = keyLocation(ctxLine)],
                         Push(stack, r.node[1]), directlyDefined, tomlErrs,
                         accepted, tableNodes, rejectedKeys, lk)

\* ExitKey_value
ExitKey_value ==
    /\ tomlPc = "walk"
    /\ tomlOpen # <<>>
    /\ Peek(tomlOpen).kind = "key_value"
    /\ Peek(tomlOpen).valued
    /\ stack' = Pop(stack)
    /\ tomlOpen' = Pop(tomlOpen)
    /\ UNCHANGED <<nodes, configFile, directlyDefined, tomlErrs, tomlRet, tomlPc,
                   tomlLine, nCallbacks, tableNodes, rejectedKeys, lastLookup>>
    /\ UNCHANGED notTomlVars

\* EnterStandard_table, the header [fieldKey]
EnterStandard_table(fieldKey) ==
    /\ MayEnter
    /\ AtTopLevel
    /\ IF fieldKey \in directlyDefined
       THEN Callback(nodes, stack, directlyDefined,
                Append(tomlErrs,
                       CMParserError("can't redefine existing key", fieldKey,
                                     keyLocation(ctxLine))),
                tomlOpen, tableNodes, rejectedKeys, lastLookup)
       ELSE LET dd == directlyDefined \cup {fieldKey}
                r == getOrCreateNode(nodes, configFile, fieldKey)
                lk == Lookup(nodes, configFile, fieldKey, r)
            IN  IF r.err # <<>>
                THEN Callback(r.nodes, stack, dd,
                         Append(tomlErrs,
                                CMParserError(r.err[1], fieldKey, keyLocation(ctxLine))),
                         tomlOpen, tableNodes, rejectedKeys, lk)
                ELSE LET fieldNode == r.node[1]
                         located == [r.nodes EXCEPT
                                        ![fieldNode].NameLocation = headerLocation(ctxLine),
                                        ![fieldNode].ValueLocation = headerLocation(ctxLine)]
                         ns == IF located[fieldNode].Type = Null
                               THEN [located EXCEPT ![fieldNode].Type = Object,
                                                    ![fieldNode].Value = EmptyMap]
                               ELSE located
                     IN  Callback(ns, Push(stack, fieldNode), dd, tomlErrs, tomlOpen,
                                  tableNodes \cup {fieldNode}, rejectedKeys, lk)

\* EnterArray_table, the header [[fieldKey]]
EnterArray_table(fieldKey) ==
    /\ MayEnter
    /\ AtTopLevel
    /\ IF fieldKey \in directlyDefined
       THEN Callback(nodes, stack, directlyDefined,
                Append(tomlErrs,
                       CMParserError("can't redefine existing key", fieldKey,
                                     keyLocation(ctxLine))),
                tomlOpen, tableNodes, rejectedKeys, lastLookup)
       ELSE LET r == getOrCreateNode(nodes, configFile, fieldKey)
                lk == Lookup(nodes, configFile, fieldKey, r)
            IN  IF r.err # <<>>
                THEN Callback(r.nodes, stack, directlyDefined,
                         Append(tomlErrs,
                                CMParserError(r.err[1], fieldKey, keyLocation(ctxLine))),
                         tomlOpen, tableNodes, rejectedKeys, lk)
                ELSE LET fieldNode == r.node[1]
                         ns == IF r.nodes[fieldNode].Type = Null
                               THEN [r.nodes EXCEPT ![fieldNode].Type = Array,
                                                    ![fieldNode].Value = EmptySlice]
                               ELSE r.nodes
                         newInArrayTable == Len(ns) + 1
                     IN  IF ns[fieldNode].Value.kind # "slice"
                         THEN Panic(NotASlice, ns, directlyDefined, lk)
                         ELSE Callback(
                                  Append([ns EXCEPT ![fieldNode].Value.slice =
                                                        Append(@, newInArrayTable)],
                                         Node(Object, EmptyMap, headerLocation(ctxLine),
                                              headerLocation(ctxLine))),
                                  Push(stack, newInArrayTable), directlyDefined, tomlErrs,
                                  tomlOpen, tableNodes \cup {newInArrayTable},
                                  rejectedKeys, lk)

\* the Enter callback of a value: appended to the node on top of the stack
\* when that node is an array, written into that node otherwise
setOrAppend(type, value, kind) ==
    IF stack = <<>>
    THEN Panic(NilPeek, nodes, directlyDefined, lastLookup)
    ELSE LET parentNode == Peek(stack)
             new == Len(nodes) + 1
         IN  IF nodes[parentNode].Type = Array
             THEN Callback(
                      Append([nodes EXCEPT ![parentNode].Value.slice = Append(@, new)],
                             Node(type, value, NoLocation, valueLocation(ctxLine))),
                      IF kind = "scalar" THEN stack ELSE Push(stack, new),
                      directlyDefined, tomlErrs, Opened(kind), tableNodes,
                      rejectedKeys, lastLookup)
             ELSE Callback(
                      [nodes EXCEPT ![parentNode].Type = type,
                                    ![parentNode].Value = value,
                                    ![parentNode].ValueLocation = valueLocation(ctxLine)],
                      IF kind = "scalar" THEN stack ELSE Push(stack, parentNode),
                      directlyDefined, tomlErrs, Opened(kind), tableNodes,
                      rejectedKeys, lastLookup)

\* EnterInline_table
EnterInline_table ==
    /\ MayEnter
    /\ AtValue
    /\ setOrAppend(Object, EmptyMap, "inline_table")

\* ExitInline_table
ExitInline_table ==
    /\ tomlPc = "walk"
    /\ tomlOpen # <<>>
    /\ Peek(tomlOpen).kind = "inline_table"
    /\ stack' = Pop(stack)
    /\ tomlOpen' = Pop(tomlOpen)
    /\ UNCHANGED <<nodes, configFile, directlyDefined, tomlErrs, tomlRet, tomlPc,
                   tomlLine, nCallbacks, tableNodes, rejectedKeys, lastLookup>>
    /\ UNCHANGED notTomlVars

\* EnterArray
EnterArray ==
    /\ MayEnter
    /\ AtValue
    /\ setOrAppend(Array, EmptySlice, "array")

\* ExitArray
ExitArray ==
    /\ tomlPc = "walk"
    /\ tomlOpen # <<>>
    /\ Peek(tomlOpen).kind = "array"
    /\ stack' = Pop(stack)
    /\ tomlOpen' = Pop(tomlOpen)
    /\ UNCHANGED <<nodes, configFile, directlyDefined, tomlErrs, tomlRet, tomlPc,
                   tomlLine, nCallbacks, tableNodes, rejectedKeys, lastLookup>>
    /\ UNCHANGED notTomlVars

\* EnterString, the string "s"
EnterString ==
    /\ MayEnter
    /\ AtValue
    /\ setOrAppend(String, ScalarValue("string", cleanString(<<Quote, "s", Quote>>)),
                   "scalar")

\* EnterInteger, the integer 1
EnterInteger ==
    /\ MayEnter
    /\ AtValue
    /\ setOrAppend(Int_, ScalarValue("int", <<"1">>), "scalar")

\* EnterFloating_point, the float 1.5
EnterFloating_point ==
    /\ MayEnter
    /\ AtValue
    /\ setOrAppend(Float, ScalarValue("float64", <<"1", ".", "5">>), "scalar")

\* EnterBool, the boolean true
EnterBool ==
    /\ MayEnter
    /\ AtValue
    /\ setOrAppend(Bool, ScalarValue("bool", <<"t", "r", "u", "e">>), "scalar")

\* EnterDate_time, the date 1979-05-27, kept as a string
EnterDate_time ==
    /\ MayEnter
    /\ AtValue
    /\ setOrAppend(String,
                   ScalarValue("string", cleanString(<<"1", "9", "7", "9", "-", "0", "5",
                                                       "-", "2", "7">>)),
                   "scalar")

TomlNext ==
    \/ ParseRefused
    \/ ParseToml
    \/ ParseTomlReturn
    \/ \E fieldKey \in TomlKeys : EnterKey_value(fieldKey)
    \/ ExitKey_value
    \/ \E fieldKey \in TomlKeys : EnterStandard_table(fieldKey)
    \/ \E fieldKey \in TomlKeys : EnterArray_table(fieldKey)
    \/ EnterInline_table
    \/ ExitInline_table
    \/ EnterArray
    \/ ExitArray
    \/ EnterString
    \/ EnterInteger
    \/ EnterFloating_point
    \/ EnterBool
    \/ EnterDate_time

(***************************************************************************)
(* Specifications: one SpecParser and its Parse calls; the type system;    *)
(* the pure helpers; one tomlParser and its Parse calls.                   *)
(***************************************************************************)
Init ==
    /\ variant \in Variants
    /\ NewSpecParser
    /\ SpecIdle
    /\ ObjIdle
    /\ UtilIdle
    /\ NewTomlParser
    /\ TomlIdle

Spec == Init /\ [][SpecNext]_vars

TypesInit ==
    /\ variant = "part_000"
    /\ NewSpecParser
    /\ SpecIdle
    /\ objValue \in SourceMaps
    /\ definition \in ObjectDefs
    /\ object = <<>>
    /\ objectErr = <<>>
    /\ made = FALSE
    /\ NoCall
    /\ UtilIdle
    /\ NewTomlParser
    /\ TomlIdle

TypesSpec == TypesInit /\ [][TypesNext]_vars

UtilInit ==
    /\ variant = "part_000"
    /\ NewSpecParser
    /\ SpecIdle
    /\ ObjIdle
    /\ typeStr \in Descriptors
    /\ condensed = <<>>
    /\ nodeType \in FieldTypes
    /\ argType \in CheckArgTypes
    /\ equal = <<>>
    /\ NewTomlParser
    /\ TomlIdle

UtilSpec == UtilInit /\ [][UtilNext]_vars

TomlInit ==
    /\ variant = "part_000"
    /\ NewSpecParser
    /\ SpecIdle
    /\ ObjIdle
    /\ UtilIdle
    /\ NewTomlParser
    /\ TomlIdle

TomlSpec == TomlInit /\ [][TomlNext]_vars


(***************************************************************************)
(* Properties of the specification parser.                                 *)
(***************************************************************************)
\* the specification items of this walk whose FieldSpec is stored
Stored == 1..Len(spec.Fields)

\* the errors EnterSpecificationItem recorded for the i-th item of the walk
ErrorsOf(i) == (entered[i].errsBefore + 1)..entered[i].errsAfter

\* the lines of the metadata items of the given kind in the i-th item
Declarations(i, kind) ==
    {line \in 1..Len(entered[i].ctx.meta) : entered[i].ctx.meta[line].kind = kind}

Min(S) == CHOOSE x \in S : \A y \in S : x <= y

\* the value and location stored in a FieldSpec for a metadata kind
StoredValue(f, kind) ==
    CASE kind = "type" -> <<f.FieldType, f.FieldTypeLocation>>
      [] kind = "optional" -> <<f.Optional, f.OptionalLocation>>
      [] kind = "default" -> <<f.Default, f.DefaultLocation>>
      [] kind = "notes" -> <<f.Notes, f.NotesLocation>>

\* the value and location a single metadata item declares
DeclaredValue(item, line) ==
    StoredValue(MetadataItem(Locals(<<>>), item, line).fieldSpecification, item.kind)

\* C1: in both variants the stored Field of an item declared at the root is
\* its local name, the stored Field of a nested item is its parent's stored
\* Field, the separator and its local name, and no stored Field starts with
\* the separator.
C1_FieldIsDottedPath ==
    \A i \in Stored :
        LET e == entered[i]
            f == spec.Fields[i].Field
        IN  /\ f = IF e.parent = 0 THEN e.ctx.name
                   ELSE spec.Fields[e.parent].Field \o Dot \o e.ctx.name
            /\ ~HasPrefix(f, Dot)

\* C2: when the walk recorded semantic errors, Parse returns the
\* Specification together with a non-nil error containing each of them.
C2_ParseReturnsRecordedErrors ==
    (pc = "idle" /\ ret.spec = "p.spec" /\ errs # <<>>) =>
        /\ ret.err # <<>>
        /\ \A i \in 1..Len(errs) : \E j \in 1..Len(ret.err) : ret.err[j] = errs[i]

\* C3: for every metadata kind, a field that declares the kind n >= 2 times
\* gets exactly n-1 duplicate errors of that kind, and the value and location
\* stored for the kind are those of the first declaration.
C3_DuplicatesKeepFirst ==
    \A i \in Stored : \A kind \in MetadataKinds :
        LET n == Cardinality(Declarations(i, kind))
            first == Min(Declarations(i, kind))
        IN  n >= 2 =>
              /\ Cardinality({j \in ErrorsOf(i) :
                     errs[j] = DuplicateError(kind, spec.Fields[i].Field)}) = n - 1
              /\ StoredValue(spec.Fields[i], kind) =
                     DeclaredValue(entered[i].ctx.meta[first], first)

\* C4: a field without a type item gets exactly one missing-type error, a
\* field with a type item gets none, and no error is ever recorded for an
\* omitted optional, default or notes item.
C4_MissingTypeOnly ==
    \A i \in Stored :
        LET missing == {j \in ErrorsOf(i) : errs[j].msg = "missing metadata"}
        IN  /\ Cardinality(missing) =
                   IF Declarations(i, "type") = {} THEN 1 ELSE 0
            /\ \A j \in missing : errs[j] = MissingTypeError(spec.Fields[i].Field)
            /\ \A j \in ErrorsOf(i) \ missing :
                   /\ errs[j].msg = "duplicate metadata"
                   /\ Cardinality(Declarations(i, errs[j].kind)) >= 2

C4_Witness ==
    /\ pc = "idle"
    /\ ret.spec = "p.spec"
    /\ \E i, j \in Stored :
           /\ entered[i].ctx.meta # <<>>
           /\ Declarations(i, "type") = {}
           /\ Cardinality(ErrorsOf(i)) = 1
           /\ Declarations(j, "type") # {}
           /\ Declarations(j, "optional") = {}
           /\ Declarations(j, "default") = {}
           /\ Declarations(j, "notes") = {}
           /\ ErrorsOf(j) = {}

\* C5: every entered specification item has exactly one FieldSpec, stored in
\* entry order with a parent before its nested items, whatever errors were
\* recorded; and every metadata kind the item declares and every check
\* statement it has is stored, also after a duplicate-metadata error.
C5_EveryItemStored ==
    pc # "panic" =>
        /\ Len(spec.Fields) = Len(entered)
        /\ \A i \in Stored :
               LET e == entered[i]
                   f == spec.Fields[i]
               IN  /\ HasSuffix(f.Field, e.ctx.name)
                   /\ e.parent < i
                   /\ e.parent # 0 => HasPrefix(f.Field, spec.Fields[e.parent].Field)
                   /\ \A kind \in MetadataKinds :
                          /\ Declarations(i, kind) # {} =>
                                 StoredValue(f, kind)[2] \in Declarations(i, kind)
                          /\ Declarations(i, kind) = {} =>
                                 StoredValue(f, kind) = StoredValue(FieldSpec(<<>>), kind)
                   /\ f.Checks = [k \in 1..Len(e.ctx.checks) |->
                                     [Check |-> e.ctx.checks[k], Location |-> k]]

C5_Witness ==
    \E i \in Stored :
        /\ \E j \in ErrorsOf(i) : errs[j].msg = "duplicate metadata"
        /\ \E line \in 1..Len(entered[i].ctx.meta) :
               /\ line > 2
               /\ entered[i].ctx.meta[1].kind = entered[i].ctx.meta[2].kind
               /\ Declarations(i, entered[i].ctx.meta[line].kind) = {line}
               /\ StoredValue(spec.Fields[i], entered[i].ctx.meta[line].kind)[2] = line

\* C6: a Parse call whose lexing or parsing reports a syntax error returns a
\* nil Specification and a non-nil error, runs no walk, and leaves the
\* parser's specification, error set and path-stack as they were.
C6_SyntaxErrorsStopParse ==
    [][(pc = "idle" /\ nParses' # nParses /\ listenerErrors' > 0) =>
           /\ ret'.spec = "nil"
           /\ ret'.err # <<>>
           /\ pc' = "idle"
           /\ spec' = spec
           /\ errs' = errs
           /\ itemFieldStack' = itemFieldStack]_vars

C6_Witness ==
    /\ pc = "idle"
    /\ nParses = 2
    /\ listenerErrors > 0
    /\ ret.spec = "nil"
    /\ spec.Fields # <<>>
    /\ errs # <<>>

\* C7: after Parse no two entries of Specification.Fields have the same
\* Field, whatever the accepted input.
C7_FieldPathsUnique ==
    (pc = "idle" /\ ret.spec = "p.spec") =>
        \A i, j \in Stored : i # j => spec.Fields[i].Field # spec.Fields[j].Field

\* C8: a Specification that Parse returned stays as it was when it was
\* returned, also across later Parse calls on the same parser.
C8_ReturnedSpecificationUnchanged ==
    \A k \in 1..Len(returned) : spec = returned[k]

\* the depth Parse prepares the path-stack with
InitialDepth == IF variant = "part_000" THEN 0 ELSE 1

\* C9: during the walk the depth of the path-stack is its initial depth plus
\* the number of open specification items, it is never peeked while empty,
\* and after the walk it is back at its initial depth.
C9_PathStackDiscipline ==
    /\ pc # "panic"
    /\ pc \in {"fileDeclaration", "imports", "items"} =>
           Len(itemFieldStack) = InitialDepth + Len(open)
    /\ (pc = "idle" /\ nParses > 0 /\ listenerErrors = 0) =>
           Len(itemFieldStack) = InitialDepth

C9_Witness ==
    /\ pc = "idle"
    /\ listenerErrors = 0
    /\ ret.spec = "p.spec"
    /\ \E i \in Stored : entered[i].parent # 0


(***************************************************************************)
(* Properties of the custom object type.                                   *)
(***************************************************************************)
\* the declared properties of the last call that are required and absent
MissingRequired ==
    {k \in 1..Len(definition.Properties) :
        /\ ~definition.Properties[k].Optional
        /\ definition.Properties[k].Name \notin DOMAIN objValue}

\* the declared properties of the last call that are present and rejected
Rejected ==
    {k \in 1..Len(definition.Properties) :
        /\ definition.Properties[k].Name \in DOMAIN objValue
        /\ MakeType(definition.Properties[k].Type,
                    objValue[definition.Properties[k].Name].Value).err # <<>>}

\* C10: customObjectFactory fails, returning no object, exactly when a
\* declared non-optional property is absent from the source map (the error
\* names a missing required property) or a declared property that is present
\* is rejected by MakeType (the error is MakeType's); otherwise it succeeds.
C10_FactoryFailsExactlyWhen ==
    made =>
        /\ objectErr # <<>> <=> (MissingRequired # {} \/ Rejected # {})
        /\ objectErr # <<>> => object = <<>>
        /\ objectErr = <<>> => object # <<>>
        /\ objectErr # <<>> =>
               \/ \E k \in MissingRequired :
                      objectErr = <<[msg |-> "missing required property",
                                     prop |-> definition.Properties[k].Name]>>
               \/ \E k \in Rejected :
                      objectErr = MakeType(definition.Properties[k].Type,
                          objValue[definition.Properties[k].Name].Value).err

C10_Witness ==
    /\ made
    /\ definition.Properties =
           <<[Name |-> "age", Type |-> "int", Optional |-> TRUE],
             [Name |-> "name", Type |-> "string", Optional |-> FALSE]>>
    /\ DOMAIN objValue = {"extra"}
    /\ objectErr = <<[msg |-> "missing required property", prop |-> "name"]>>
    /\ object = <<>>

\* the names of the declared properties of the last call
DeclaredNames ==
    {definition.Properties[k].Name : k \in 1..Len(definition.Properties)}

\* C11: when customObjectFactory succeeds, the type name of the object is
\* the name of the definition and the set of its field names is exactly the
\* declared property names that are keys of the source map: an absent
\* optional property is no field, and neither is an undeclared source key.
C11_FieldsAreDeclaredAndPresent ==
    (made /\ objectErr = <<>>) =>
        /\ object # <<>>
        /\ TypeName(object[1]) = definition.Name
        /\ DOMAIN object[1].Fields = DeclaredNames \cap DOMAIN objValue

C11_Witness ==
    /\ made
    /\ objectErr = <<>>
    /\ definition.Properties =
           <<[Name |-> "name", Type |-> "string", Optional |-> FALSE],
             [Name |-> "age", Type |-> "int", Optional |-> TRUE]>>
    /\ DOMAIN objValue = {"name", "extra"}
    /\ DOMAIN object[1].Fields = {"name"}

\* C12: for every method name that is not in the method table of the custom
\* object, the callable GetMethod returns fails for every argument list: it
\* returns no value and an error that names the type of the object and the
\* requested method.
C12_MissingMethodAlwaysFails ==
    (called /\ method \notin tCustomObjectMethods) =>
        /\ callValue = <<>>
        /\ callErr = <<[msg |-> "does not have method",
                        type |-> TypeName(object[1]), method |-> method]>>

C12_Witness ==
    /\ called
    /\ method = "set"
    /\ Len(args) = 1
    /\ args[1].typeName = "string"
    /\ args[1].value = "name"
    /\ "name" \in DOMAIN object[1].Fields
    /\ callErr # <<>>

\* whether get must reject the argument list a for the object t
BadGetCall(t, a) ==
    IF Len(a) # 1 THEN TRUE
    ELSE IF a[1].typeName # "string" THEN TRUE
    ELSE a[1].value \notin DOMAIN t.Fields

\* C13: get fails, returning no value, if the number of arguments is not 1,
\* if the argument is not a string value or if the object has no field of
\* that name; otherwise it returns exactly the typed value stored under that
\* name, with no error; in every case the object is left as it was.
C13_GetReturnsStoredField ==
    [][(~called /\ called' /\ method' = "get") =>
          /\ object' = object
          /\ BadGetCall(object[1], args') <=> callErr' # <<>>
          /\ BadGetCall(object[1], args') => callValue' = <<>>
          /\ ~BadGetCall(object[1], args') =>
                 callValue' = <<object[1].Fields[args'[1].value]>>]_vars

C13_Witness ==
    /\ called
    /\ method = "get"
    /\ Len(args) = 1
    /\ args[1].typeName = "string"
    /\ args[1].value = "name"
    /\ callErr = <<>>
    /\ Len(callValue) = 1
    /\ callValue[1].typeName = "string"
    /\ callValue[1].value = "a"
    /\ "age" \in DOMAIN object[1].Fields

(***************************************************************************)
(* Properties of the pure helpers.                                         *)
(***************************************************************************)
\* the flat descriptor of the base type name wrapped n times
RECURSIVE Flat(_, _)
Flat(base, n) == IF n = 0 THEN base ELSE ListColon \o Flat(base, n - 1)

\* C16: condenseListExpressions maps list<list<int>> to list:list:int, maps
\* a descriptor with no list wrapper to itself, and is idempotent for every
\* descriptor made of nested list<...> wrappers around a base type name.
C16_CondenseFlattensOnce ==
    /\ (Len(condensed) >= 1 /\ typeStr = Wrapped(<<"i", "n", "t">>, 2)) =>
           condensed[1] = <<"l", "i", "s", "t", ":", "l", "i", "s", "t", ":", "i", "n", "t">>
    /\ (Len(condensed) >= 1 /\ typeStr \in BaseNames) => condensed[1] = typeStr
    /\ Len(condensed) >= 2 => condensed[2] = condensed[1]

C16_Witness ==
    /\ typeStr = Wrapped(<<"i", "n", "t">>, 2)
    /\ Len(condensed) = 2
    /\ condensed[2] = Flat(<<"i", "n", "t">>, 2)

\* the node tag and the check argument type of each of the four scalar types
ScalarTags == {<<Int_, "Int">>, <<Float, "Float">>, <<Bool, "Bool">>, <<String, "String">>}

\* C17: equalType is true exactly when the node tag and the argument type
\* denote the same one of int, float, bool and string: an int node never
\* matches a float argument nor a float node an int argument, and a null,
\* array or object node matches no argument type.
C17_EqualTypeIsTagEquality ==
    equal # <<>> =>
        /\ equal[1] <=> <<nodeType, argType>> \in ScalarTags
        /\ (nodeType = Int_ /\ argType = "Float") => ~equal[1]
        /\ (nodeType = Float /\ argType = "Int") => ~equal[1]
        /\ nodeType \in {Null, Array, Object} => ~equal[1]

C17_Witness ==
    /\ equal = <<FALSE>>
    /\ nodeType = Int_
    /\ argType = "Float"

(***************************************************************************)
(* Properties of the TOML parser.                                          *)
(***************************************************************************)
\* the key_values of this walk that were rejected because their key was
\* populated already
Redefinitions ==
    {i \in 1..Len(rejectedKeys) : rejectedKeys[i].msg = "can't redefine existing key"}

\* C14: Parse of a syntactically valid document that assigns a value to a
\* key that is populated already returns a non-empty error list that reports
\* the redefinition.
C14_RedefinitionIsReturned ==
    (tomlPc = "returned" /\ Redefinitions # {}) =>
        \E i \in 1..Len(tomlRet.errs) :
            tomlRet.errs[i].Message.msg = "can't redefine existing key"

\* C15: every node a standard-table or array-table header has created or
\* entered has its ValueLocation equal to its NameLocation once the header is
\* processed, and in every later state of the walk.
C15_TableLocationsStayEqual ==
    \A n \in tableNodes : nodes[n].ValueLocation = nodes[n].NameLocation

\* C18: for every key_value, inline_table and array, a rejected key_value
\* included, the node stack after the Exit callback is the node stack just
\* before the matching Enter callback.
C18_ExitRestoresStack ==
    [][(tomlPc = "walk" /\ Len(tomlOpen') < Len(tomlOpen)) =>
          stack' = Peek(tomlOpen).before]_vars

\* the last getOrCreateNode call resolved a two-segment path from an object
\* whose first segment is a non-empty array that ends with a table
ThroughArray ==
    IF lastLookup = <<>> THEN FALSE
    ELSE LET lk == lastLookup[1]
             from == lk.before[lk.parent]
         IN  IF Len(lk.segments) # 2 \/ from.Type # Object THEN FALSE
             ELSE IF lk.segments[1] \notin DOMAIN from.Value.map THEN FALSE
             ELSE LET a == lk.before[from.Value.map[lk.segments[1]]]
                  IN  IF a.Type # Array \/ a.Value.slice = <<>> THEN FALSE
                      ELSE lk.before[a.Value.slice[Len(a.Value.slice)]].Type = Object

\* the last table of the array the last getOrCreateNode call went through
LastTable ==
    LET lk == lastLookup[1]
        a == lk.before[lk.before[lk.parent].Value.map[lk.segments[1]]]
    IN  a.Value.slice[Len(a.Value.slice)]

\* C19: when getOrCreateNode meets an array it goes on from the last element
\* of the array and resolves every remaining segment inside that element:
\* for the path a.b with a an array of tables, the result is the node b of
\* the last table of a, created as a Null node if it was missing.
C19_ArrayPathResolvesInLastTable ==
    ThroughArray =>
        LET lk == lastLookup[1]
            b == lk.segments[2]
        IN  /\ lk.err = <<>>
            /\ b \in DOMAIN lk.after[LastTable].Value.map
            /\ lk.node = <<lk.after[LastTable].Value.map[b]>>
            /\ b \notin DOMAIN lk.before[LastTable].Value.map =>
                   lk.after[lk.node[1]].Type = Null

\* the nodes of the heap ns that the segments from index on lead to from
\* cur, one object child after the other, as far as they exist
RECURSIVE PathNodes(_, _, _, _)
PathNodes(ns, cur, segments, index) ==
    IF index > Len(segments) THEN <<cur>>
    ELSE IF ns[cur].Type # Object THEN <<cur>>
    ELSE IF segments[index] \notin DOMAIN ns[cur].Value.map THEN <<cur>>
    ELSE <<cur>> \o PathNodes(ns, ns[cur].Value.map[segments[index]], segments, index + 1)

\* every node at which a segment is looked up is an object
ThroughObjects(ns, path, segments) ==
    \A j \in 1..Len(path) : j <= Len(segments) => ns[path[j]].Type = Object

\* C20: getOrCreateNode over a path through object nodes returns the
\* existing node, creating nothing, when the whole path exists; otherwise it
\* creates every missing intermediate segment as an Object node that holds
\* the next segment only and the missing final segment as a Null node, and
\* leaves every other node as it was; a second call with the same arguments
\* returns the same node and creates nothing.
C20_ObjectPathGetOrCreate ==
    lastLookup # <<>> =>
        LET lk == lastLookup[1]
            n == Len(lk.segments)
            old == PathNodes(lk.before, lk.parent, lk.segments, 1)
            new == PathNodes(lk.after, lk.parent, lk.segments, 1)
            again == getOrCreateNode(lk.after, lk.parent, lk.segments)
        IN  ThroughObjects(lk.before, old, lk.segments) =>
                /\ lk.err = <<>>
                /\ Len(new) = n + 1
                /\ lk.node = <<new[n + 1]>>
                /\ SubSeq(new, 1, Len(old)) = old
                /\ Len(old) = n + 1 => lk.after = lk.before
                /\ Len(lk.after) = Len(lk.before) + (n + 1 - Len(old))
                /\ \A j \in (Len(old) + 1)..(n + 1) :
                       /\ new[j] > Len(lk.before)
                       /\ IF j = n + 1
                          THEN lk.after[new[j]] =
                                   Node(Null, NilValue, NoLocation, NoLocation)
                          ELSE /\ lk.after[new[j]].Type = Object
                               /\ DOMAIN lk.after[new[j]].Value.map = {lk.segments[j]}
                /\ \A i \in 1..Len(lk.before) :
                       IF Len(old) <= n /\ i = old[Len(old)]
                       THEN lk.after[i] =
                                [lk.before[i] EXCEPT !.Value.map =
                                    (lk.segments[Len(old)] :> new[Len(old) + 1]) @@ @]
                       ELSE lk.after[i] = lk.before[i]
                /\ again.err = <<>>
                /\ again.node = lk.node
                /\ again.nodes = lk.after

C20_Witness ==
    /\ lastLookup # <<>>
    /\ lastLookup[1].segments = <<"a", "b">>
    /\ lastLookup[1].parent = 1
    /\ Len(lastLookup[1].before) = 2
    /\ "b" \in DOMAIN lastLookup[1].before[1].Value.map
    /\ Len(lastLookup[1].after) = 4
    /\ lastLookup[1].after[3].Type = Object
    /\ lastLookup[1].after[4].Type = Null
    /\ lastLookup[1].node = <<4>>

\* a rejected key_value is open
InRejected == \E i \in 1..Len(tomlOpen) : tomlOpen[i].rejected

\* C21: a key_value that is rejected, its key being populated already or its
\* path not traversable, leaves the tree unchanged: no node changes when the
\* key_value is rejected nor while the value callbacks run inside it.
C21_RejectedKeyValueLeavesTree ==
    [][(tomlPc = "walk" /\ (InRejected \/ Len(rejectedKeys') > Len(rejectedKeys))) =>
          nodes' = nodes]_vars

\* C22: during the walk of a syntactically valid document, rejected keys and
\* table headers included, the node stack is never empty when a callback
\* peeks it: the assertion Peek().(*Node) never fails.
C22_StackNeverEmptyAtPeek == tomlPc # NilPeek

\* C23: EnterArray_table appends a table only to a node whose Type is Array:
\* when the key of the header resolves to a node that is neither Null nor
\* Array it records an error and does not attempt the append, so the
\* assertion Value.([]*Node) never fails.
C23_ArrayTableAppendsToArrays == tomlPc # NotASlice

\* the node new is the node old with, at most, more children
Kept(old, new) ==
    /\ new.Type = old.Type
    /\ new.NameLocation = old.NameLocation
    /\ new.ValueLocation = old.ValueLocation
    /\ new.Value.kind = old.Value.kind
    /\ new.Value.slice = old.Value.slice
    /\ new.Value.scalar = old.Value.scalar
    /\ DOMAIN old.Value.map \subseteq DOMAIN new.Value.map
    /\ \A k \in DOMAIN old.Value.map : new.Value.map[k] = old.Value.map[k]

\* C24: getOrCreateNode never modifies or removes a node that exists already,
\* which at most gains the child the call creates under it; and when it
\* returns an error, for a leaf node or an empty array in the path, it has
\* created no node: the tree is exactly as it was before the call.
C24_GetOrCreateKeepsNodes ==
    lastLookup # <<>> =>
        LET lk == lastLookup[1]
        IN  /\ Len(lk.after) >= Len(lk.before)
            /\ \A i \in 1..Len(lk.before) :
                   /\ Kept(lk.before[i], lk.after[i])
                   /\ \A k \in DOMAIN lk.after[i].Value.map \ DOMAIN lk.before[i].Value.map :
                          lk.after[i].Value.map[k] > Len(lk.before)
            /\ lk.err # <<>> => (lk.after = lk.before /\ lk.node = <<>>)

C24_Witness ==
    /\ lastLookup # <<>>
    /\ lastLookup[1].err = <<"cannot traverse leaf node">>
    /\ lastLookup[1].segments = <<"a", "b">>
    /\ lastLookup[1].after = lastLookup[1].before
    /\ \E i \in 1..Len(lastLookup[1].before) : lastLookup[1].before[i].Type = String

====
